---------------------------- MODULE Spec2Model ----------------------------
(***************************************************************************)
(* A model of env_apple.py: the Apple toolchain resolver                   *)
(* init_machine_config and the four static tables it reads.                *)
(*                                                                         *)
(* One call is a straight-line walk through the function body, one action  *)
(* per statement group; the host (xcrun and the filesystem) is fixed in    *)
(* the initial state and answers every query deterministically, so that    *)
(* two calls on the same host can be compared.                             *)
(***************************************************************************)
EXTENDS Naturals, Sequences, FiniteSets, TLC

VARIABLES
    machine,        \* the target descriptor (argument)
    sdk_prefix,     \* the SDK overlay path, or None (argument)
    native_machine, \* argument, current call
    is_cross_build, \* argument, current call
    host,           \* what xcrun answers on this host
    fs,             \* the files that exist on this host
    ncalls,         \* calls begun so far
    pc,             \* position of the current call in the function body
    idx,            \* position of the for loop in APPLE_BINARIES
    sdk_name, sdk_path, binaries, clang_path,
    clang_arch, os_minver, target, linker_flags,
    config,         \* the ConfigParser sink: a sequence of sections
    trace,          \* external interactions of the current call, in order
    machine_path, machine_env,
    result,         \* what the call returned, once it has
    error,          \* the exception that ended the call, or None
    prev            \* outcome of the previous call: <<>> or <<outcome>>

args   == <<machine, sdk_prefix, native_machine, is_cross_build>>
env    == <<host, fs>>
locals == <<idx, sdk_name, sdk_path, binaries, clang_path,
            clang_arch, os_minver, target, linker_flags,
            machine_path, machine_env>>
vars   == <<args, env, ncalls, pc, locals, config, trace, result, error, prev>>

None == "<None>"

----------------------------------------------------------------------------
(* The static tables.                                                      *)

\* APPLE_SDKS with one entry lost.
APPLE_SDKS_NoTvosSimulator ==
    [k \in {"macos", "ios", "ios-simulator", "watchos", "watchos-simulator",
            "tvos"} |->
        CASE k = "macos"             -> "macosx"
          [] k = "ios"               -> "iphoneos"
          [] k = "ios-simulator"     -> "iphonesimulator"
          [] k = "watchos"           -> "watchos"
          [] k = "watchos-simulator" -> "watchsimulator"
          [] k = "tvos"              -> "appletvos"]

APPLE_SDKS ==
    [k \in {"macos", "ios", "ios-simulator", "watchos", "watchos-simulator",
            "tvos", "tvos-simulator"} |->
        CASE k = "macos"             -> "macosx"
          [] k = "ios"               -> "iphoneos"
          [] k = "ios-simulator"     -> "iphonesimulator"
          [] k = "watchos"           -> "watchos"
          [] k = "watchos-simulator" -> "watchsimulator"
          [] k = "tvos"              -> "appletvos"
          [] k = "tvos-simulator"    -> "appletvsimulator"]

APPLE_CLANG_ARCHS ==
    [k \in {"x86", "arm", "arm64eoabi"} |->
        CASE k = "x86"        -> "i386"
          [] k = "arm"        -> "armv7"
          [] k = "arm64eoabi" -> "arm64e"]

APPLE_MINIMUM_OS_VERSIONS ==
    [k \in {"macos", "macos-arm64", "macos-arm64e", "ios", "watchos", "tvos"} |->
        CASE k = "macos"        -> "10.9"
          [] k = "macos-arm64"  -> "11.0"
          [] k = "macos-arm64e" -> "11.0"
          [] k = "ios"          -> "8.0"
          [] k = "watchos"      -> "9.0"
          [] k = "tvos"         -> "13.0"]

Binary(identifier, tool_name, rest) ==
    [identifier |-> identifier, tool_name |-> tool_name, rest |-> rest]

\* APPLE_BINARIES with objcpp made an alias of the C compiler.
APPLE_BINARIES_ObjcppAliasesC == <<
    Binary("c",                 "clang",             <<>>),
    Binary("cpp",               "clang++",           << <<"-stdlib=libc++">> >>),
    Binary("objc",              "#c",                <<>>),
    Binary("objcpp",            "#c",                <<>>),
    Binary("ar",                "ar",                <<>>),
    Binary("nm",                "llvm-nm",           <<>>),
    Binary("ranlib",            "ranlib",            <<>>),
    Binary("strip",             "strip",             << <<"-Sx">> >>),
    Binary("libtool",           "libtool",           <<>>),
    Binary("install_name_tool", "install_name_tool", <<>>),
    Binary("otool",             "otool",             <<>>),
    Binary("codesign",          "codesign",          <<>>),
    Binary("lipo",              "lipo",              <<>>) >>

APPLE_BINARIES == <<
    Binary("c",                 "clang",             <<>>),
    Binary("cpp",               "clang++",           << <<"-stdlib=libc++">> >>),
    Binary("objc",              "#c",                <<>>),
    Binary("objcpp",            "#cpp",              <<>>),
    Binary("ar",                "ar",                <<>>),
    Binary("nm",                "llvm-nm",           <<>>),
    Binary("ranlib",            "ranlib",            <<>>),
    Binary("strip",             "strip",             << <<"-Sx">> >>),
    Binary("libtool",           "libtool",           <<>>),
    Binary("install_name_tool", "install_name_tool", <<>>),
    Binary("otool",             "otool",             <<>>),
    Binary("codesign",          "codesign",          <<>>),
    Binary("lipo",              "lipo",              <<>>) >>


----------------------------------------------------------------------------
(* Strings, as Python and pathlib treat them.                              *)

IsSpace(c) == c \in {" ", "\n", "\t", "\r"}

RECURSIVE LStrip(_)
LStrip(s) ==
    IF Len(s) > 0 /\ IsSpace(SubSeq(s, 1, 1))
    THEN LStrip(SubSeq(s, 2, Len(s)))
    ELSE s

RECURSIVE RStrip(_)
RStrip(s) ==
    IF Len(s) > 0 /\ IsSpace(SubSeq(s, Len(s), Len(s)))
    THEN RStrip(SubSeq(s, 1, Len(s) - 1))
    ELSE s

\* str.strip()
Strip(s) == LStrip(RStrip(s))

\* str.startswith(prefix)
StartsWith(s, prefix) ==
    Len(s) >= Len(prefix) /\ SubSeq(s, 1, Len(prefix)) = prefix

\* Position of the last "/" of s, 0 when there is none.
RECURSIVE LastSlash(_, _)
LastSlash(s, i) ==
    IF i = 0 THEN 0
    ELSE IF SubSeq(s, i, i) = "/" THEN i
    ELSE LastSlash(s, i - 1)

\* Path(s): the empty string is the current directory.
Path(s) == IF s = "" THEN "." ELSE s

\* Path.parent
PathParent(p) ==
    LET i == LastSlash(p, Len(p))
    IN  IF i = 0 THEN "."
        ELSE IF i = 1 THEN "/"
        ELSE SubSeq(p, 1, i - 1)

\* Path.__truediv__
PathJoin(p, name) ==
    IF p = "." THEN name
    ELSE IF p = "/" THEN "/" \o name
    ELSE p \o "/" \o name

\* Path.exists()
Exists(files, p) == p \in files

RECURSIVE JoinQuoted(_)
JoinQuoted(strv) ==
    IF Len(strv) = 0 THEN ""
    ELSE IF Len(strv) = 1 THEN "'" \o strv[1] \o "'"
    ELSE "'" \o strv[1] \o "', " \o JoinQuoted(Tail(strv))

\* str(list of str)
PyStr(argv) == "[" \o JoinQuoted(argv) \o "]"

\* machine_file.strv_to_meson: the build system's array literal
strv_to_meson(strv) == "[" \o JoinQuoted(strv) \o "]"

\* dict[key] = value
DictSet(d, key, value) == (key :> value) @@ d

EmptyDict == <<>>

----------------------------------------------------------------------------
(* The ConfigParser sink: an ordered list of named sections.  Assigning a  *)
(* section replaces the one of that name, or appends a new one.            *)

SectionNames(cfg) == [i \in 1..Len(cfg) |-> cfg[i].name]

HasSection(cfg, name) == \E i \in 1..Len(cfg) : cfg[i].name = name

Section(cfg, name) ==
    (CHOOSE i \in 1..Len(cfg) : cfg[i].name = name) 

ConfigSet(cfg, name, options) ==
    IF HasSection(cfg, name)
    THEN [i \in 1..Len(cfg) |->
            IF cfg[i].name = name THEN [name |-> name, options |-> options]
            ELSE cfg[i]]
    ELSE Append(cfg, [name |-> name, options |-> options])

ConfigGet(cfg, name) == cfg[Section(cfg, name)].options


----------------------------------------------------------------------------
(* The host: xcrun and the filesystem.                                     *)

\* Standard output of subprocess.run(argv): xcrun prints the path and a
\* newline, or nothing (the error goes to standard error) when it finds none.
XcrunStdout(h, argv) ==
    IF argv[4] = "--show-sdk-path"
    THEN IF h.sdk_root = "" THEN ""
         ELSE h.sdk_root \o "/" \o argv[3] \o ".sdk\n"
    ELSE IF argv[5] \in h.missing THEN ""
         ELSE h.bin \o "/" \o argv[5] \o "\n"

Run(argv) == [kind |-> "run", argv |-> argv]

Probe(path) == [kind |-> "exists", argv |-> <<path>>]

----------------------------------------------------------------------------
(* The pure parts of init_machine_config.                                  *)

\* No entry is taken for an alias: every entry is looked up.
IsAlias_Never(tool_name) == FALSE

IsAlias(tool_name) == StartsWith(tool_name, "#")

\* tool_name[1:]
AliasTarget(tool_name) == SubSeq(tool_name, 2, Len(tool_name))

\* The invocation string of one resolved tool.
RawVal(identifier, path, rest) ==
    LET argv == IF Len(rest) # 0 THEN <<path>> \o rest[1] ELSE <<path>>
    IN  IF identifier \in {"c", "cpp"}
        THEN PyStr(argv) \o " + common_flags"
        ELSE PyStr(argv)

\* APPLE_CLANG_ARCHS.get(machine.arch, machine.arch)
ClangArch(m) ==
    IF m.arch \in DOMAIN APPLE_CLANG_ARCHS
    THEN APPLE_CLANG_ARCHS[m.arch]
    ELSE m.arch

\* A lookup that falls back to None instead of raising.
OsMinver_NoneDefault(m) ==
    IF m.os_dash_arch \in DOMAIN APPLE_MINIMUM_OS_VERSIONS
    THEN [raised |-> FALSE, value |-> APPLE_MINIMUM_OS_VERSIONS[m.os_dash_arch]]
    ELSE IF m.os \in DOMAIN APPLE_MINIMUM_OS_VERSIONS
    THEN [raised |-> FALSE, value |-> APPLE_MINIMUM_OS_VERSIONS[m.os]]
    ELSE [raised |-> FALSE, value |-> "None"]

\* APPLE_MINIMUM_OS_VERSIONS.get(machine.os_dash_arch,
\*                               APPLE_MINIMUM_OS_VERSIONS[machine.os])
\* Python evaluates the default argument before the call of get, so the
\* subscript by machine.os is evaluated, and may raise, whatever the first
\* key is.
OsMinver(m) ==
    IF m.os \notin DOMAIN APPLE_MINIMUM_OS_VERSIONS
    THEN [raised |-> TRUE, value |-> None]
    ELSE IF m.os_dash_arch \in DOMAIN APPLE_MINIMUM_OS_VERSIONS
    THEN [raised |-> FALSE, value |-> APPLE_MINIMUM_OS_VERSIONS[m.os_dash_arch]]
    ELSE [raised |-> FALSE, value |-> APPLE_MINIMUM_OS_VERSIONS[m.os]]

\* The triple without its config suffix.
Target_NoConfigSuffix(m, arch, minver) ==
    arch \o "-apple-" \o m.os \o minver

Target(m, arch, minver) ==
    LET t == arch \o "-apple-" \o m.os \o minver
    IN  IF m.config # None THEN t \o "-" \o m.config ELSE t

\* The probe next to the compiler's own path instead of its directory.
LdClassicPath_NoParent(clang) == PathJoin(clang, "ld-classic")

LdClassicPath(clang) == PathJoin(PathParent(clang), "ld-classic")

LinkerFlags(clang, files) ==
    IF Exists(files, LdClassicPath(clang))
    THEN <<"-Wl,-dead_strip">> \o <<"-Wl,-ld_classic">>
    ELSE <<"-Wl,-dead_strip">>

LibcxxPath(prefix) == PathJoin(PathJoin(PathJoin(prefix, "lib"), "c++"), "libc++.a")

\* The condition without its exception for watchos.
UseStaticLibcxx_NoWatchosCheck(m, prefix, files) ==
    /\ prefix # None
    /\ Exists(files, LibcxxPath(prefix))

\* The condition of the if statement, with Python's short-circuit order.
UseStaticLibcxx(m, prefix, files) ==
    /\ prefix # None
    /\ Exists(files, LibcxxPath(prefix))
    /\ m.os # "watchos"

BaseConstants(tgt, sdk, flags) ==
    DictSet(DictSet(DictSet(EmptyDict,
        "common_flags", strv_to_meson(<<"-target", tgt, "-isysroot", sdk>>)),
        "c_like_flags", strv_to_meson(<<>>)),
        "linker_flags", strv_to_meson(flags))

CxxConstants(prefix) ==
    DictSet(DictSet(EmptyDict,
        "cxx_like_flags", strv_to_meson(<<
            "-nostdinc++",
            "-isystem" \o PathJoin(PathJoin(prefix, "include"), "c++") >>)),
        "cxx_link_flags", strv_to_meson(<<
            "-nostdlib++",
            "-L" \o PathJoin(PathJoin(prefix, "lib"), "c++"),
            "-lc++",
            "-lc++abi" >>))

\* constants.update(...) under the if statement
Constants(m, prefix, files, tgt, sdk, flags) ==
    IF UseStaticLibcxx(m, prefix, files)
    THEN CxxConstants(prefix) @@ BaseConstants(tgt, sdk, flags)
    ELSE BaseConstants(tgt, sdk, flags)

BuiltinOptions ==
    [k \in {"c_args", "cpp_args", "objc_args", "objcpp_args",
            "c_link_args", "cpp_link_args", "objc_link_args",
            "objcpp_link_args", "b_lundef"} |->
        CASE k = "c_args"           -> "c_like_flags"
          [] k = "cpp_args"         -> "c_like_flags + cxx_like_flags"
          [] k = "objc_args"        -> "c_like_flags"
          [] k = "objcpp_args"      -> "c_like_flags + cxx_like_flags"
          [] k = "c_link_args"      -> "linker_flags"
          [] k = "cpp_link_args"    -> "linker_flags + cxx_link_flags"
          [] k = "objc_link_args"   -> "linker_flags"
          [] k = "objcpp_link_args" -> "linker_flags + cxx_link_flags"
          [] k = "b_lundef"         -> "true"]


----------------------------------------------------------------------------
(* The inputs.                                                             *)

MaxCalls == 2

\* machine_spec.MachineSpec: the two lookup keys are derived from os, arch
\* and config.
MachineSpec(os, arch, cfg) ==
    [os |-> os, arch |-> arch, config |-> cfg,
     os_dash_config |-> IF cfg = None THEN os ELSE os \o "-" \o cfg,
     os_dash_arch   |-> os \o "-" \o arch]

\* init_machine_config reads the five attributes one by one and never checks
\* that they agree: any object that has them is a descriptor.
Descriptor(os, arch, cfg, os_dash_config, os_dash_arch) ==
    [os |-> os, arch |-> arch, config |-> cfg,
     os_dash_config |-> os_dash_config, os_dash_arch |-> os_dash_arch]

OSes    == {"macos", "ios", "watchos", "tvos", "freebsd"}
Archs   == {"arm64", "arm"}
Configs == {None, "simulator"}

Machines ==
    {MachineSpec(os, arch, cfg) : os \in OSes, arch \in Archs, cfg \in Configs}
    \cup {Descriptor("macos",   "arm64", "foo", "macos", "macos-arm64"),
          Descriptor("freebsd", "arm64", None,  "macos", "macos-arm64"),
          Descriptor("freebsd", "arm",   None,  "ios",   "freebsd-arm")}

NativeMachines ==
    {MachineSpec("macos", "arm64", None), MachineSpec("linux", "x86_64", None)}

SdkPrefixes == {None, "/sdk"}

ToolNames ==
    {APPLE_BINARIES[i].tool_name : i \in 1..Len(APPLE_BINARIES)}

Hosts ==
    {[bin |-> "/Xcode/usr/bin", sdk_root |-> "/Xcode/SDKs",   missing |-> {}],
     [bin |-> "/usr/bin",       sdk_root |-> "/Library/SDKs", missing |-> {}],
     [bin |-> "/Xcode/usr/bin", sdk_root |-> "/Xcode/SDKs",   missing |-> {"clang"}],
     [bin |-> "",               sdk_root |-> "",              missing |-> ToolNames]}

Files ==
    {"/Xcode/usr/bin/ld-classic", "ld-classic", "/sdk/lib/c++/libc++.a"}

NoResult == [returned |-> FALSE, value |-> <<>>]

----------------------------------------------------------------------------
(* The state machine.                                                      *)

Init ==
    /\ machine \in Machines
    /\ sdk_prefix \in SdkPrefixes
    /\ native_machine \in NativeMachines
    /\ is_cross_build \in BOOLEAN
    /\ host \in Hosts
    /\ fs \in SUBSET Files
    /\ ncalls = 0
    /\ pc = "idle"
    /\ idx = 0
    /\ sdk_name = None /\ sdk_path = None
    /\ binaries = EmptyDict
    /\ clang_path = None
    /\ clang_arch = None /\ os_minver = None /\ target = None
    /\ linker_flags = <<>>
    /\ machine_path = <<>> /\ machine_env = EmptyDict
    /\ config = <<>>
    /\ trace = <<>>
    /\ result = NoResult
    /\ error = None
    /\ prev = <<>>

Outcome ==
    [native_machine |-> native_machine, is_cross_build |-> is_cross_build,
     config |-> config, trace |-> trace, result |-> result, error |-> error]

Raise(exception) ==
    /\ pc' = "raised"
    /\ error' = exception

\* lines 54-61: a call begins, with a sink of its own.  The first call runs
\* with the arguments of the initial state; a later call on the same host
\* is given the same machine and sdk_prefix and any native_machine and
\* is_cross_build.
Call ==
    /\ pc \in {"idle", "returned", "raised"}
    /\ ncalls < MaxCalls
    /\ ncalls' = ncalls + 1
    /\ IF ncalls = 0
       THEN /\ UNCHANGED <<native_machine, is_cross_build>>
            /\ prev' = <<>>
       ELSE /\ native_machine' \in NativeMachines
            /\ is_cross_build' \in BOOLEAN
            /\ prev' = <<Outcome>>
    /\ pc' = "sdk_name"
    /\ idx' = 0
    /\ sdk_name' = None /\ sdk_path' = None
    /\ binaries' = EmptyDict
    /\ clang_path' = None
    /\ clang_arch' = None /\ os_minver' = None /\ target' = None
    /\ linker_flags' = <<>>
    /\ machine_path' = <<>> /\ machine_env' = EmptyDict
    /\ config' = <<>>
    /\ trace' = <<>>
    /\ result' = NoResult
    /\ error' = None
    /\ UNCHANGED <<machine, sdk_prefix, env>>

\* line 63
SdkName ==
    /\ pc = "sdk_name"
    /\ IF machine.os_dash_config \in DOMAIN APPLE_SDKS
       THEN /\ sdk_name' = APPLE_SDKS[machine.os_dash_config]
            /\ pc' = "sdk_path"
            /\ UNCHANGED error
       ELSE /\ Raise("KeyError: APPLE_SDKS")
            /\ UNCHANGED sdk_name
    /\ UNCHANGED <<args, env, ncalls, idx, sdk_path, binaries, clang_path,
                   clang_arch, os_minver, target, linker_flags,
                   machine_path, machine_env, config, trace, result, prev>>

\* lines 64-68
SdkPath ==
    /\ pc = "sdk_path"
    /\ LET argv == <<"xcrun", "--sdk", sdk_name, "--show-sdk-path">>
       IN  /\ trace' = Append(trace, Run(argv))
           /\ sdk_path' = Strip(XcrunStdout(host, argv))
    /\ binaries' = EmptyDict
    /\ clang_path' = None
    /\ idx' = 1
    /\ pc' = "binaries"
    /\ UNCHANGED <<args, env, ncalls, sdk_name,
                   clang_arch, os_minver, target, linker_flags,
                   machine_path, machine_env, config, result, error, prev>>

\* lines 70-73: one iteration of the loop, over an alias entry
CopyAlias ==
    /\ pc = "binaries"
    /\ idx <= Len(APPLE_BINARIES)
    /\ IsAlias(APPLE_BINARIES[idx].tool_name)
    /\ LET entry == APPLE_BINARIES[idx]
           role  == AliasTarget(entry.tool_name)
       IN  IF role \in DOMAIN binaries
           THEN /\ binaries' = DictSet(binaries, entry.identifier, binaries[role])
                /\ idx' = idx + 1
                /\ UNCHANGED <<pc, error>>
           ELSE /\ Raise("KeyError: binaries")
                /\ UNCHANGED <<binaries, idx>>
    /\ UNCHANGED <<args, env, ncalls, sdk_name, sdk_path, clang_path,
                   clang_arch, os_minver, target, linker_flags,
                   machine_path, machine_env, config, trace, result, prev>>

\* lines 70-71, 75-89: one iteration of the loop, over a tool to look up
LocateTool ==
    /\ pc = "binaries"
    /\ idx <= Len(APPLE_BINARIES)
    /\ ~IsAlias(APPLE_BINARIES[idx].tool_name)
    /\ LET entry == APPLE_BINARIES[idx]
           argv  == <<"xcrun", "--sdk", sdk_name, "-f", entry.tool_name>>
           path  == Strip(XcrunStdout(host, argv))
       IN  /\ trace' = Append(trace, Run(argv))
           /\ clang_path' = IF entry.tool_name = "clang" THEN Path(path)
                            ELSE clang_path
           /\ binaries' = DictSet(binaries, entry.identifier,
                                  RawVal(entry.identifier, path, entry.rest))
    /\ idx' = idx + 1
    /\ UNCHANGED <<args, env, ncalls, pc, sdk_name, sdk_path,
                   clang_arch, os_minver, target, linker_flags,
                   machine_path, machine_env, config, result, error, prev>>

\* line 90
WriteBinaries ==
    /\ pc = "binaries"
    /\ idx > Len(APPLE_BINARIES)
    /\ config' = ConfigSet(config, "binaries", binaries)
    /\ pc' = "target"
    /\ UNCHANGED <<args, env, ncalls, locals, trace, result, error, prev>>

\* lines 92-99
ComputeTarget ==
    /\ pc = "target"
    /\ clang_arch' = ClangArch(machine)
    /\ LET minver == OsMinver(machine)
       IN  IF minver.raised
           THEN /\ Raise("KeyError: APPLE_MINIMUM_OS_VERSIONS")
                /\ UNCHANGED <<os_minver, target>>
           ELSE /\ os_minver' = minver.value
                /\ target' = Target(machine, clang_arch', minver.value)
                /\ pc' = "linker_flags"
                /\ UNCHANGED error
    /\ UNCHANGED <<args, env, ncalls, idx, sdk_name, sdk_path, binaries,
                   clang_path, linker_flags, machine_path, machine_env,
                   config, trace, result, prev>>

\* lines 101-105
ProbeLdClassic ==
    /\ pc = "linker_flags"
    /\ IF clang_path = None
       THEN /\ Raise("AttributeError: clang_path")
            /\ UNCHANGED <<linker_flags, trace>>
       ELSE /\ trace' = Append(trace, Probe(LdClassicPath(clang_path)))
            /\ linker_flags' = LinkerFlags(clang_path, fs)
            /\ pc' = "constants"
            /\ UNCHANGED error
    /\ UNCHANGED <<args, env, ncalls, idx, sdk_name, sdk_path, binaries,
                   clang_path, clang_arch, os_minver, target,
                   machine_path, machine_env, config, result, prev>>

\* lines 107-131
WriteConstants ==
    /\ pc = "constants"
    /\ trace' = IF sdk_prefix # None
                THEN Append(trace, Probe(LibcxxPath(sdk_prefix)))
                ELSE trace
    /\ config' = ConfigSet(config, "constants",
                    Constants(machine, sdk_prefix, fs, target, sdk_path, linker_flags))
    /\ pc' = "options"
    /\ UNCHANGED <<args, env, ncalls, locals, result, error, prev>>

\* A return that fills the environment mapping on a cross build.
WriteOptionsAndReturn_CrossBuildEnv ==
    /\ pc = "options"
    /\ config' = ConfigSet(config, "built-in options", BuiltinOptions)
    /\ result' = [returned |-> TRUE,
                  value |-> <<machine_path,
                              IF is_cross_build
                              THEN DictSet(machine_env, "SDKROOT", sdk_path)
                              ELSE machine_env>>]
    /\ pc' = "returned"
    /\ UNCHANGED <<args, env, ncalls, locals, trace, error, prev>>

\* lines 133-145
WriteOptionsAndReturn ==
    /\ pc = "options"
    /\ config' = ConfigSet(config, "built-in options", BuiltinOptions)
    /\ result' = [returned |-> TRUE, value |-> <<machine_path, machine_env>>]
    /\ pc' = "returned"
    /\ UNCHANGED <<args, env, ncalls, locals, trace, error, prev>>

Next ==
    \/ Call
    \/ SdkName
    \/ SdkPath
    \/ CopyAlias
    \/ LocateTool
    \/ WriteBinaries
    \/ ComputeTarget
    \/ ProbeLdClassic
    \/ WriteConstants
    \/ WriteOptionsAndReturn

Spec == Init /\ [][Next]_vars


----------------------------------------------------------------------------
(* Vocabulary of the properties.                                           *)

Returned == pc = "returned"

RaisedSdk == pc = "raised" /\ error = "KeyError: APPLE_SDKS"

RaisedMinver == pc = "raised" /\ error = "KeyError: APPLE_MINIMUM_OS_VERSIONS"

SectionOrder == <<"binaries", "constants", "built-in options">>

IsPrefix(s, t) == Len(s) <= Len(t) /\ s = SubSeq(t, 1, Len(s))

SdkIdentifiers ==
    {"macosx", "iphoneos", "iphonesimulator", "watchos", "watchsimulator",
     "appletvos", "appletvsimulator"}

SdkKeys ==
    {"macos", "ios", "ios-simulator", "watchos", "watchos-simulator",
     "tvos", "tvos-simulator"}

\* The names an option's expression refers to: its operands around " + ".
RECURSIVE Operands(_, _)
Operands(expr, from) ==
    LET n == Len(expr)
        cut == {i \in from..n : i + 2 <= n /\ SubSeq(expr, i, i + 2) = " + "}
    IN  IF cut = {}
        THEN {SubSeq(expr, from, n)}
        ELSE LET i == CHOOSE j \in cut : \A k \in cut : j <= k
             IN  {SubSeq(expr, from, i - 1)} \cup Operands(expr, i + 3)

RunEvents == SelectSeq(trace, LAMBDA e : e.kind = "run")

\* C1: after a successful call the constants section holds cxx_like_flags
\* and cxx_link_flags exactly when an overlay is given, libc++.a exists under
\* <overlay>/lib/c++ and the OS is not watchos; the two keys are never
\* present one without the other.
C1_CxxConstants ==
    /\ Returned =>
        LET keys == DOMAIN ConfigGet(config, "constants")
            cond == /\ sdk_prefix # None
                    /\ (sdk_prefix \o "/lib/c++/libc++.a") \in fs
                    /\ machine.os # "watchos"
        IN  IF cond
            THEN {"cxx_like_flags", "cxx_link_flags"} \subseteq keys
            ELSE {"cxx_like_flags", "cxx_link_flags"} \cap keys = {}
    /\ HasSection(config, "constants") =>
        LET keys == DOMAIN ConfigGet(config, "constants")
        IN  "cxx_like_flags" \in keys <=> "cxx_link_flags" \in keys

C1_Witness ==
    /\ Returned
    /\ machine.os = "ios"
    /\ "cxx_link_flags" \in DOMAIN ConfigGet(config, "constants")

\* C2: after a successful call cpp_args and objcpp_args name cxx_like_flags
\* only when the constants section has it, and every constant an option names
\* is a key of the constants section.
C2_OptionsNameDefinedConstants ==
    Returned =>
        LET keys == DOMAIN ConfigGet(config, "constants")
            opts == ConfigGet(config, "built-in options")
            cxx  == IF "cxx_like_flags" \in keys
                    THEN "c_like_flags + cxx_like_flags"
                    ELSE "c_like_flags"
        IN  /\ opts["cpp_args"] = cxx
            /\ opts["objcpp_args"] = cxx
            /\ \A k \in DOMAIN opts \ {"b_lundef"} :
                    Operands(opts[k], 1) \subseteq keys

\* C3: a descriptor whose os_dash_config is no key of APPLE_SDKS ends the
\* call with a KeyError before anything was run and with nothing written to
\* the sink; each of the seven keys passes the step.
C3_SdkLookup ==
    (ncalls > 0 /\ pc # "sdk_name") =>
        IF machine.os_dash_config \in SdkKeys
        THEN error # "KeyError: APPLE_SDKS" /\ sdk_name \in SdkIdentifiers
        ELSE RaisedSdk /\ trace = <<>> /\ config = <<>>

C3_Witness == RaisedSdk /\ machine.os_dash_config = "macos-simulator"

\* C4: once written, binaries["objc"] is binaries["c"] and binaries["objcpp"]
\* is binaries["cpp"], whatever xcrun answered; in APPLE_BINARIES every alias
\* comes after the entry it refers to.
C4_AliasesEqual ==
    /\ \A i \in 1..Len(APPLE_BINARIES) :
            IsAlias(APPLE_BINARIES[i].tool_name) =>
                \E j \in 1..(i - 1) :
                    "#" \o APPLE_BINARIES[j].identifier = APPLE_BINARIES[i].tool_name
    /\ error # "KeyError: binaries"
    /\ HasSection(config, "binaries") =>
        LET b == ConfigGet(config, "binaries")
        IN  b["objc"] = b["c"] /\ b["objcpp"] = b["cpp"]

C4_Witness ==
    /\ Returned
    /\ ConfigGet(config, "binaries")["objc"] = "['/usr/bin/clang'] + common_flags"
    /\ ConfigGet(config, "binaries")["objcpp"]
            = "['/usr/bin/clang++', '-stdlib=libc++'] + common_flags"

\* C5: the triple after -target is <clang_arch>-apple-<os><min_version>,
\* then -<config> exactly when the descriptor has a config; clang_arch is the
\* table's entry for the architecture, or the architecture itself.
C5_TargetTriple ==
    HasSection(config, "constants") =>
        LET arch   == IF machine.arch \in DOMAIN APPLE_CLANG_ARCHS
                      THEN APPLE_CLANG_ARCHS[machine.arch] ELSE machine.arch
            triple == arch \o "-apple-" \o machine.os \o os_minver
                        \o (IF machine.config = None THEN ""
                            ELSE "-" \o machine.config)
        IN  /\ ConfigGet(config, "constants")["common_flags"]
                = strv_to_meson(<<"-target", triple, "-isysroot", sdk_path>>)
            /\ target = triple
            /\ machine = MachineSpec("macos", "arm64", None)
                    => triple = "arm64-apple-macos11.0"
            /\ machine = MachineSpec("ios", "arm", None)
                    => triple = "armv7-apple-ios8.0"
            /\ (machine.os = "macos" /\ machine.arch = "arm64" /\ machine.config = "foo")
                    => triple = "arm64-apple-macos11.0-foo"

C5_Witness ==
    /\ Returned
    /\ machine.config = "foo"
    /\ target = "arm64-apple-macos11.0-foo"

C7_NativeArgsUnused ==
    /\ (pc \in {"returned", "raised"} /\ prev # <<>>) =>
            /\ config = prev[1].config
            /\ result = prev[1].result
            /\ error = prev[1].error
            /\ trace = prev[1].trace
    /\ result.returned => result.value = << <<>>, <<>> >>

C7_Witness ==
    /\ Returned
    /\ prev # <<>>
    /\ prev[1].result.returned
    /\ prev[1].native_machine # native_machine
    /\ prev[1].is_cross_build # is_cross_build

\* C8: the processes run by a call are, in order, one xcrun --show-sdk-path
\* and one xcrun -f for each tool of APPLE_BINARIES that is no alias, all
\* with the one SDK identifier; the ld-classic probe comes after the lookup
\* of clang.
C8_Invocations ==
    LET tools == <<"clang", "clang++", "ar", "llvm-nm", "ranlib", "strip",
                   "libtool", "install_name_tool", "otool", "codesign", "lipo">>
        want  == <<Run(<<"xcrun", "--sdk", sdk_name, "--show-sdk-path">>)>>
                 \o [i \in 1..Len(tools) |->
                        Run(<<"xcrun", "--sdk", sdk_name, "-f", tools[i]>>)]
    IN  /\ IsPrefix(RunEvents, want)
        /\ RunEvents # <<>> => sdk_name \in SdkIdentifiers
        /\ Returned => RunEvents = want
        /\ \A i \in 1..Len(trace) :
                trace[i].kind = "exists" => \E j \in 1..(i - 1) : trace[j] = want[2]
        /\ Returned =>
                trace[Len(want) + 1] =
                    Probe(IF "clang" \in host.missing THEN "ld-classic"
                          ELSE host.bin \o "/ld-classic")

C8_Witness ==
    /\ Returned
    /\ Len(RunEvents) = 12
    /\ sdk_name = "watchsimulator"

\* C9: a failed lookup in APPLE_SDKS leaves the sink empty, a failed lookup
\* in APPLE_MINIMUM_OS_VERSIONS leaves it with the binaries section alone,
\* and the sections of the sink are at all times a prefix of binaries,
\* constants, built-in options.
C9_FailureAtomicity ==
    /\ IsPrefix(SectionNames(config), SectionOrder)
    /\ RaisedSdk => config = <<>>
    /\ RaisedMinver => SectionNames(config) = <<"binaries">>
    /\ (/\ pc \in {"returned", "raised"}
        /\ machine.os_dash_config \in DOMAIN APPLE_SDKS
        /\ machine.os \notin DOMAIN APPLE_MINIMUM_OS_VERSIONS)
            => RaisedMinver

C9_Witness ==
    /\ RaisedMinver
    /\ SectionNames(config) = <<"binaries">>
    /\ DOMAIN ConfigGet(config, "binaries") =
            {APPLE_BINARIES[i].identifier : i \in 1..Len(APPLE_BINARIES)}

\* C10: linker_flags is -Wl,-dead_strip, followed by -Wl,-ld_classic exactly
\* when a file ld-classic exists in the directory of the path xcrun gave for
\* clang, and nothing else; the probe never ends the call.
C10_LinkerFlags ==
    /\ error # "AttributeError: clang_path"
    /\ pc \in {"constants", "options", "returned"} =>
        LET there == IF "clang" \in host.missing
                     THEN "ld-classic" \in fs
                     ELSE (host.bin \o "/ld-classic") \in fs
        IN  linker_flags = IF there
                           THEN <<"-Wl,-dead_strip", "-Wl,-ld_classic">>
                           ELSE <<"-Wl,-dead_strip">>
    /\ HasSection(config, "constants") =>
        ConfigGet(config, "constants")["linker_flags"] = strv_to_meson(linker_flags)

C10_Witness ==
    /\ Returned
    /\ clang_path = "/Xcode/usr/bin/clang"
    /\ linker_flags = <<"-Wl,-dead_strip", "-Wl,-ld_classic">>

============================================================================
